---- MODULE Spec2Model ----
(***************************************************************************)
(* Model of internal/namespace/caching.go: the caching namespace manager.  *)
(* A number of concurrent ReadNamespace calls run against one              *)
(* cachingManager: a ristretto cache (store + buffered, policy-filtered    *)
(* inserts) and a singleflight group keyed by the namespace cache key.     *)
(***************************************************************************)
EXTENDS Integers, FiniteSets, Sequences, TLC

\* Number of ReadNamespace calls issued against the manager.
NumCalls == 3

\* Number of datastore reads that fail for a reason other than NotFound.
MaxDsFailures == 1

Calls == 1..NumCalls

\* The (nsName, revision) pairs the callers ask for.  A negative revision
\* stands for a revision the datastore cannot turn into a cache key.
Requests == {<<"document", 1>>, <<"document", 2>>, <<"user", 1>>, <<"user", -1>>}

----------------------------------------------------------------------------
\* Values: definitions and errors

\* A namespace definition: its name, the names of its relations, and the
\* user-defined metadata (comments) attached to it and to its relations.
NilDef == [name |-> "", relation |-> {}, metadata |-> {}]

NoErr == [kind |-> "nil", name |-> ""]
ErrInvalidRevision == [kind |-> "InvalidRevision", name |-> ""]
ErrDatastore == [kind |-> "DatastoreError", name |-> ""]
ErrCanceled == [kind |-> "ContextCanceled", name |-> ""]

\* datastore.ErrNamespaceNotFound
DsErrNamespaceNotFound(n) == [kind |-> "datastore.ErrNamespaceNotFound", name |-> n]

\* namespace.NewNamespaceNotFoundErr(nsName)
NewNamespaceNotFoundErr(n) == [kind |-> "NamespaceNotFound", name |-> n]

\* The backing content: "document" exists at both revisions with differing
\* content, "user" exists from revision 2 on only.
DsExists(n, r) == (n = "document" /\ r \in {1, 2}) \/ (n = "user" /\ r = 2)

DsContent(n, r) ==
    IF n = "document" /\ r = 1
    THEN [name |-> "document", relation |-> {"viewer"},
          metadata |-> {"doc comment v1"}]
    ELSE IF n = "document"
    THEN [name |-> "document", relation |-> {"viewer", "editor"},
          metadata |-> {"doc comment v2", "editor comment"}]
    ELSE [name |-> "user", relation |-> {}, metadata |-> {"user comment"}]

\* ds.NamespaceCacheKey(nsName, revision): (key, error)
NamespaceCacheKey(n, r) ==
    IF r < 0
    THEN [key |-> <<"", 0>>, err |-> ErrInvalidRevision]
    ELSE [key |-> <<n, r>>, err |-> NoErr]

\* ds.ReadNamespace(ctx, nsName, revision): the outcomes the datastore can
\* produce for one invocation; a canceled context may abort the read.
DsReadNamespace(n, r, canceled) ==
    {IF DsExists(n, r)
     THEN [def |-> DsContent(n, r), err |-> NoErr]
     ELSE [def |-> NilDef, err |-> DsErrNamespaceNotFound(n)]}
    \cup {[def |-> NilDef, err |-> ErrDatastore]}
    \cup (IF canceled THEN {[def |-> NilDef, err |-> ErrCanceled]} ELSE {})

\* namespace.FilterUserDefinedMetadata
FilterUserDefinedMetadata(d) ==
    [name |-> d.name, relation |-> d.relation, metadata |-> {}]

----------------------------------------------------------------------------
VARIABLES
    pc,        \* position of each call
    nsName,    \* argument nsName of each call
    revision,  \* argument revision of each call
    ctxDone,   \* whether the context of a call was canceled while it waited in Do
    cache,     \* nsc.c: the entries visible to Get
    setBuf,    \* nsc.c: inserts queued for the admission policy
    m,         \* nsc.readNsGroup: key -> leader of the in-flight call
    sfcall,    \* singleflight call struct of each leader: val, err (what
               \*          the closure returned) and whether the call is done
    flight,    \* the singleflight call a caller executes or waits on
    ret,       \* per call: the pair returned by ReadNamespace
    role,      \* history: how the call was served
    dsReads,   \* history: ds.ReadNamespace invocations made by the call
    dsErr,     \* history: the error the datastore returned to the call
    wrap       \* the invocation of CheckNamespaceAndRelation or of
               \*          ReadNamespaceAndTypes in progress or last returned:
               \*          its arguments, the ReadNamespace call it makes, and
               \*          what it returned

vars == <<pc, nsName, revision, ctxDone, cache, setBuf, m, sfcall, flight,
          ret, role, dsReads, dsErr, wrap>>

callArgs == <<nsName, revision, wrap>>
cacheVars == <<cache, setBuf>>
history == <<dsReads, dsErr>>

NilResult == [val |-> NilDef, err |-> NoErr]

\* A nil *NamespaceTypeSystem.
NilTs == [name |-> "", relations |-> {}]

NoWrap ==
    [method |-> "none", call |-> 0, namespace |-> "", revision |-> 0,
     relation |-> "", allowEllipsis |-> FALSE, done |-> TRUE,
     def |-> NilDef, ts |-> NilTs, err |-> NoErr, builds |-> 0,
     lookup |-> 0, ref |-> ""]

Init ==
    /\ pc = [c \in Calls |-> "idle"]
    /\ nsName = [c \in Calls |-> ""]
    /\ revision = [c \in Calls |-> 0]
    /\ ctxDone = [c \in Calls |-> FALSE]
    /\ cache = << >>
    /\ setBuf = {}
    /\ m = << >>
    /\ sfcall = [c \in Calls |-> [done |-> FALSE, val |-> NilDef, err |-> NoErr]]
    /\ flight = [c \in Calls |-> 0]
    /\ ret = [c \in Calls |-> NilResult]
    /\ role = [c \in Calls |-> "none"]
    /\ dsReads = [c \in Calls |-> 0]
    /\ dsErr = [c \in Calls |-> NoErr]
    /\ wrap = NoWrap

\* nsRevisionKey, err := ds.NamespaceCacheKey(nsName, revision) of a call
nsRevisionKey(c) == NamespaceCacheKey(nsName[c], revision[c])

----------------------------------------------------------------------------
\* Lines 64-78: derive the cache key and fail on a derivation error, else
\* probe the cache; a hit returns the cached value, a miss goes on to Do.
\* `found` is the outcome of nsc.c.Get.  Calls are numbered in the order in
\* which they begin.
ProbeIgnoringErr(key, err, found) ==
    IF found
    THEN [pc |-> "done", role |-> "hit", ret |-> [val |-> cache[key], err |-> NoErr]]
    ELSE [pc |-> "do", role |-> "none", ret |-> NilResult]

ProbeMissReturnsNil(key, err, found) ==
    IF err # NoErr
    THEN [pc |-> "done", role |-> "none", ret |-> [val |-> NilDef, err |-> err]]
    ELSE IF found
    THEN [pc |-> "done", role |-> "hit", ret |-> [val |-> cache[key], err |-> NoErr]]
    ELSE [pc |-> "done", role |-> "none", ret |-> NilResult]

\* A probe whose hit is not used: the call goes on to Do all the same.
ProbeHitGoesOn(key, err, found) ==
    IF err # NoErr
    THEN [pc |-> "done", role |-> "none", ret |-> [val |-> NilDef, err |-> err]]
    ELSE [pc |-> "do", role |-> "none", ret |-> NilResult]

Probe(key, err, found) ==
    IF err # NoErr
    THEN [pc |-> "done", role |-> "none", ret |-> [val |-> NilDef, err |-> err]]
    ELSE IF found
    THEN [pc |-> "done", role |-> "hit", ret |-> [val |-> cache[key], err |-> NoErr]]
    ELSE [pc |-> "do", role |-> "none", ret |-> NilResult]

ReadNamespaceBegin(c, n, r) ==
    /\ pc[c] = "idle"
    /\ \A d \in Calls : d < c => pc[d] # "idle"
    /\ nsName' = [nsName EXCEPT ![c] = n]
    /\ revision' = [revision EXCEPT ![c] = r]
    /\ LET k == NamespaceCacheKey(n, r)
           p == Probe(k.key, k.err, k.key \in DOMAIN cache)
       IN  /\ pc' = [pc EXCEPT ![c] = p.pc]
           /\ role' = [role EXCEPT ![c] = p.role]
           /\ ret' = [ret EXCEPT ![c] = p.ret]
    /\ UNCHANGED <<ctxDone, cacheVars, m, sfcall, flight, dsReads, dsErr, wrap>>

\* A group that never finds a registered call: every caller fetches.
InFlightNever(key) == 0

\* A group that hands out whatever call is registered, whatever its key.
InFlightAnyKey(key) == IF DOMAIN m = {} THEN 0 ELSE m[CHOOSE k \in DOMAIN m : TRUE]

\* Line 81, readNsGroup.Do under the group's mutex: the call registered for
\* the key (its leader), 0 when there is none.
InFlight(key) == IF key \in DOMAIN m THEN m[key] ELSE 0

\* Line 81, entry of readNsGroup.Do: a caller that finds a call registered for
\* its key waits on it, otherwise it registers its own call and runs the
\* closure.
DoEnter(c) ==
    /\ pc[c] = "do"
    /\ IF InFlight(nsRevisionKey(c).key) # 0
       THEN /\ flight' = [flight EXCEPT ![c] = InFlight(nsRevisionKey(c).key)]
            /\ role' = [role EXCEPT ![c] = "follower"]
            /\ pc' = [pc EXCEPT ![c] = "wait"]
            /\ UNCHANGED m
       ELSE /\ m' = [k \in DOMAIN m \cup {nsRevisionKey(c).key} |->
                        IF k = nsRevisionKey(c).key THEN c ELSE m[k]]
            /\ flight' = [flight EXCEPT ![c] = c]
            /\ role' = [role EXCEPT ![c] = "leader"]
            /\ pc' = [pc EXCEPT ![c] = "fetch"]
    /\ UNCHANGED <<callArgs, ctxDone, cacheVars, sfcall, ret, history>>

\* A closure that goes on with the definition as read.
SanitizeNothing(def) == def

\* Line 89: the definition the closure goes on with after a successful read.
Sanitize(def) == FilterUserDefinedMetadata(def)

\* A Set that stores the definition as read instead of the filtered one.
CacheItemUnfiltered(c, def) ==
    [key |-> NamespaceCacheKey(nsName[c], revision[c]).key,
     value |-> DsContent(nsName[c], revision[c])]

\* A Set under a key that leaves the revision out.
CacheItemNameOnly(c, def) ==
    [key |-> NamespaceCacheKey(nsName[c], 1).key, value |-> def]

\* Lines 91-97: the (key, value) handed to nsc.c.Set.
CacheItem(c, def) ==
    [key |-> NamespaceCacheKey(nsName[c], revision[c]).key, value |-> def]

\* Line 97, nsc.c.Set: ristretto replaces the value of a key the store
\* already holds; a new key is queued for the admission policy.  (Set drops
\* the item when the queue is contended: the same as a queued item the policy
\* rejects.)  Set's result is not looked at.
CacheSet(i) ==
    IF i.key \in DOMAIN cache
    THEN /\ cache' = [cache EXCEPT ![i.key] = i.value]
         /\ UNCHANGED setBuf
    ELSE /\ setBuf' = setBuf \cup {i}
         /\ UNCHANGED cache

\* The datastore reads that have failed for a reason other than NotFound.
DsFailures == Cardinality({c \in Calls : dsErr[c] \in {ErrDatastore, ErrCanceled}})

\* Lines 83-100, the closure run by the leader, and the assignment of its
\* result to the singleflight call: the datastore read returns (it is given
\* the leader's context, which the leader's caller may have canceled
\* meanwhile), the definition is filtered and handed to the cache.
Closure(c) ==
    /\ pc[c] = "fetch"
    /\ dsReads' = [dsReads EXCEPT ![c] = @ + 1]
    /\ \E out \in DsReadNamespace(nsName[c], revision[c], FALSE)
                  \cup DsReadNamespace(nsName[c], revision[c], TRUE) :
          /\ out.err \in {ErrDatastore, ErrCanceled} => DsFailures < MaxDsFailures
          /\ dsErr' = [dsErr EXCEPT ![c] = out.err]
          /\ IF out.err # NoErr
             THEN /\ sfcall' = [sfcall EXCEPT ![c].err = out.err]
                  /\ UNCHANGED cacheVars
             ELSE IF NamespaceCacheKey(nsName[c], revision[c]).err # NoErr
             THEN /\ sfcall' = [sfcall EXCEPT ![c].err =
                                   NamespaceCacheKey(nsName[c], revision[c]).err]
                  /\ UNCHANGED cacheVars
             ELSE /\ sfcall' = [sfcall EXCEPT ![c].val = Sanitize(out.def)]
                  /\ CacheSet(CacheItem(c, Sanitize(out.def)))
    /\ pc' = [pc EXCEPT ![c] = "exit"]
    /\ UNCHANGED <<callArgs, ctxDone, m, flight, ret, role>>

\* A return that passes the datastore's NotFound on as it is.
ResultUnmapped(c, out) ==
    IF out.err # NoErr
    THEN [val |-> NilDef, err |-> out.err]
    ELSE [val |-> out.val, err |-> NoErr]

\* A return that wraps every other error.
ResultWrapped(c, out) ==
    IF out.err.kind = "datastore.ErrNamespaceNotFound"
    THEN [val |-> NilDef, err |-> NewNamespaceNotFoundErr(nsName[c])]
    ELSE IF out.err # NoErr
    THEN [val |-> NilDef, err |-> [kind |-> "wrapped", name |-> out.err.kind]]
    ELSE [val |-> out.val, err |-> NoErr]

\* A return that gives a caller whose own context is live another error than
\* the cancellation of the leader's.
ResultMasksCancel(c, out) ==
    IF out.err.kind = "datastore.ErrNamespaceNotFound"
    THEN [val |-> NilDef, err |-> NewNamespaceNotFoundErr(nsName[c])]
    ELSE IF out.err = ErrCanceled /\ flight[c] # c /\ ~ctxDone[c]
    THEN [val |-> NilDef, err |-> ErrDatastore]
    ELSE IF out.err # NoErr
    THEN [val |-> NilDef, err |-> out.err]
    ELSE [val |-> out.val, err |-> NoErr]

\* Lines 102-109: what ReadNamespace returns for the outcome of Do.
Result(c, out) ==
    IF out.err.kind = "datastore.ErrNamespaceNotFound"
    THEN [val |-> NilDef, err |-> NewNamespaceNotFoundErr(nsName[c])]
    ELSE IF out.err # NoErr
    THEN [val |-> NilDef, err |-> out.err]
    ELSE [val |-> out.val, err |-> NoErr]

\* A Do that hands each caller the outcome slot of a call of its own.
SharedOwn(c) == [val |-> sfcall[c].val, err |-> sfcall[c].err]

\* Line 81: the outcome Do hands to the callers of a singleflight call.
Shared(c) == [val |-> sfcall[flight[c]].val, err |-> sfcall[flight[c]].err]

\* An end of Do that leaves the call registered in the group.
DoExitKeepsEntry(c) ==
    /\ pc[c] = "exit"
    /\ sfcall' = [sfcall EXCEPT ![c].done = TRUE]
    /\ ret' = [ret EXCEPT ![c] = Result(c, Shared(c))]
    /\ pc' = [pc EXCEPT ![c] = "done"]
    /\ UNCHANGED <<callArgs, ctxDone, cacheVars, m, flight, role, history>>

\* Lines 81 and 102-109, the end of the leader's Do under the group's mutex:
\* the waiters are released and the call is removed from the group; the leader
\* returns.
DoExit(c) ==
    /\ pc[c] = "exit"
    /\ sfcall' = [sfcall EXCEPT ![c].done = TRUE]
    /\ m' = [k \in {j \in DOMAIN m : m[j] # c} |-> m[k]]
    /\ ret' = [ret EXCEPT ![c] = Result(c, Shared(c))]
    /\ pc' = [pc EXCEPT ![c] = "done"]
    /\ UNCHANGED <<callArgs, ctxDone, cacheVars, flight, role, history>>

\* A waiter that is never released.
CanWakeNever(c) == FALSE

\* A waiter that is also released by the cancellation of its own context.
CanWakeOnCancel(c) == sfcall[flight[c]].done \/ ctxDone[c]

\* Line 81, a waiter of Do: blocked until the call it joined has completed,
\* whatever the state of its own context.
CanWake(c) == sfcall[flight[c]].done

\* Lines 81 and 102-109: a waiter is released and returns.
DoWake(c) ==
    /\ pc[c] = "wait"
    /\ CanWake(c)
    /\ ret' = [ret EXCEPT ![c] = Result(c, Shared(c))]
    /\ pc' = [pc EXCEPT ![c] = "done"]
    /\ UNCHANGED <<callArgs, ctxDone, cacheVars, m, sfcall, flight, role, history>>

\* The caller cancels the context of a call that waits inside Do.
CancelCtx(c) ==
    /\ pc[c] = "wait"
    /\ ~ctxDone[c]
    /\ ctxDone' = [ctxDone EXCEPT ![c] = TRUE]
    /\ UNCHANGED <<pc, callArgs, cacheVars, m, sfcall, flight, ret, role, history>>

\* ristretto's processItems: a queued insert is given to the policy, which
\* either rejects it or admits it, evicting the victims it picks.  An insert
\* for a key the store already holds adds nothing.
CacheProcess(i, admit, victims) ==
    /\ i \in setBuf
    /\ setBuf' = setBuf \ {i}
    /\ IF i.key \in DOMAIN cache \/ ~admit
       THEN /\ victims = {}
            /\ UNCHANGED cache
       ELSE /\ victims \subseteq DOMAIN cache
            /\ cache' = [k \in (DOMAIN cache \ victims) \cup {i.key} |->
                            IF k = i.key THEN i.value ELSE cache[k]]
    /\ UNCHANGED <<pc, callArgs, ctxDone, m, sfcall, flight, ret, role, history>>

\* The steps of a ReadNamespace call that has begun.
CallStep(c) ==
    \/ DoEnter(c)
    \/ Closure(c)
    \/ DoExit(c)
    \/ DoWake(c)

\* Calls for any pairs, beginning at any time.  (The context of a waiting
\* follower is read by no step, so its cancellation is left to SpecConcurrent.)
Next ==
    \/ \E c \in Calls : \E q \in Requests : ReadNamespaceBegin(c, q[1], q[2])
    \/ \E c \in Calls : CallStep(c)
    \/ \E i \in setBuf : \E admit \in BOOLEAN, victims \in SUBSET (DOMAIN cache) :
          CacheProcess(i, admit, victims)

Spec == Init /\ [][Next]_vars

\* K concurrent calls for one pair whose key is not yet in the cache: every
\* call begins before any call has returned, with the pair of the others; the
\* callers may cancel the contexts of the calls that wait.
ReadNamespaceConcurrent(c, n, r) ==
    /\ \A d \in Calls : pc[d] # "done"
    /\ \A d \in Calls : pc[d] # "idle" => nsName[d] = n /\ revision[d] = r
    /\ NamespaceCacheKey(n, r).err = NoErr
    /\ NamespaceCacheKey(n, r).key \notin DOMAIN cache
    /\ ReadNamespaceBegin(c, n, r)

NextConcurrent ==
    \/ \E c \in Calls : \E q \in Requests : ReadNamespaceConcurrent(c, q[1], q[2])
    \/ \E c \in Calls : CallStep(c)
    \/ \E c \in Calls : CancelCtx(c)
    \/ \E i \in setBuf : \E admit \in BOOLEAN, victims \in SUBSET (DOMAIN cache) :
          CacheProcess(i, admit, victims)

SpecConcurrent == Init /\ [][NextConcurrent]_vars

\* N sequential calls: a call begins when every call before it has returned.
ReadNamespaceSequential(c, n, r) ==
    /\ \A d \in Calls : pc[d] \in {"idle", "done"}
    /\ ReadNamespaceBegin(c, n, r)

NextSequential ==
    \/ \E c \in Calls : \E q \in Requests : ReadNamespaceSequential(c, q[1], q[2])
    \/ \E c \in Calls : DoEnter(c)
    \/ \E c \in Calls : Closure(c)
    \/ \E c \in Calls : DoExit(c)
    \/ \E i \in setBuf : \E admit \in BOOLEAN, victims \in SUBSET (DOMAIN cache) :
          CacheProcess(i, admit, victims)

SpecSequential == Init /\ [][NextSequential]_vars

----------------------------------------------------------------------------
\* CheckNamespaceAndRelation and ReadNamespaceAndTypes: each makes one
\* ReadNamespace call and goes on with what it returned.

\* datastore.Ellipsis, the reserved wildcard relation
Ellipsis == "..."

\* The relations the callers of CheckNamespaceAndRelation ask about.
RelationArgs == {"viewer", "editor", "owner", Ellipsis}

NewRelationNotFoundErr(namespace, relation) ==
    [kind |-> "RelationNotFound", name |-> namespace, relation |-> relation]

\* The invocation in progress has made its ReadNamespace call c, which has
\* returned.
WrapReturning(c) == wrap.call = c /\ ~wrap.done /\ pc[c] = "done"

\* An invocation begins when the one before it has returned: it is to make
\* the next ReadNamespace call, with its own namespace and revision.
WrapBegin(c, method, n, r, relation, allowEllipsis) ==
    /\ pc[c] = "idle"
    /\ \A d \in Calls : d < c => pc[d] # "idle"
    /\ wrap.done
    /\ wrap' = [NoWrap EXCEPT !.method = method, !.call = c, !.namespace = n,
                              !.revision = r, !.relation = relation,
                              !.allowEllipsis = allowEllipsis, !.done = FALSE]
    /\ UNCHANGED <<pc, nsName, revision, ctxDone, cacheVars, m, sfcall, flight,
                   ret, role, history>>

\* nsc.ReadNamespace(ctx, namespace, revision) of the invocation in progress
WrapReadNamespace(c) ==
    /\ wrap.call = c
    /\ ~wrap.done
    /\ ReadNamespaceBegin(c, wrap.namespace, wrap.revision)

\* A check that looks at the wildcard before it looks at the error.
CheckResultEllipsisFirst(out, namespace, relation, allowEllipsis) ==
    IF allowEllipsis /\ relation = Ellipsis THEN NoErr
    ELSE IF out.err # NoErr THEN out.err
    ELSE IF \E rel \in out.val.relation : rel = relation THEN NoErr
    ELSE NewRelationNotFoundErr(namespace, relation)

\* A check that lets the wildcard pass whatever allowEllipsis says.
CheckResultAnyEllipsis(out, namespace, relation, allowEllipsis) ==
    IF out.err # NoErr THEN out.err
    ELSE IF relation = Ellipsis THEN NoErr
    ELSE IF \E rel \in out.val.relation : rel = relation THEN NoErr
    ELSE NewRelationNotFoundErr(namespace, relation)

\* Lines 113-128: what CheckNamespaceAndRelation returns for the outcome of
\* its ReadNamespace call.
CheckResult(out, namespace, relation, allowEllipsis) ==
    IF out.err # NoErr THEN out.err
    ELSE IF allowEllipsis /\ relation = Ellipsis THEN NoErr
    ELSE IF \E rel \in out.val.relation : rel = relation THEN NoErr
    ELSE NewRelationNotFoundErr(namespace, relation)

\* Lines 112-129, entry of CheckNamespaceAndRelation
CheckNamespaceAndRelation(c, namespace, relation, allowEllipsis, r) ==
    WrapBegin(c, "CheckNamespaceAndRelation", namespace, r, relation, allowEllipsis)

\* Lines 114-128, CheckNamespaceAndRelation after its ReadNamespace call
CheckReturn(c) ==
    /\ WrapReturning(c)
    /\ wrap.method = "CheckNamespaceAndRelation"
    /\ wrap' = [wrap EXCEPT !.done = TRUE,
                            !.err = CheckResult(ret[c], wrap.namespace,
                                                wrap.relation, wrap.allowEllipsis)]
    /\ UNCHANGED <<pc, nsName, revision, ctxDone, cacheVars, m, sfcall, flight,
                   ret, role, history>>

\* CheckNamespaceAndRelation invoked time after time.
NextCheck ==
    \/ \E c \in Calls : \E q \in Requests :
          \E relation \in RelationArgs, allowEllipsis \in BOOLEAN :
             CheckNamespaceAndRelation(c, q[1], relation, allowEllipsis, q[2])
    \/ \E c \in Calls : WrapReadNamespace(c)
    \/ \E c \in Calls : DoEnter(c)
    \/ \E c \in Calls : Closure(c)
    \/ \E c \in Calls : DoExit(c)
    \/ \E c \in Calls : CheckReturn(c)
    \/ \E i \in setBuf : \E admit \in BOOLEAN, victims \in SUBSET (DOMAIN cache) :
          CacheProcess(i, admit, victims)

SpecCheck == Init /\ [][NextCheck]_vars

\* The error of a failed type system build.
ErrBuild == [kind |-> "TypeSystemError", name |-> ""]

\* The namespaces a definition may refer to.
Referenced == {"document", "user"}

\* BuildNamespaceTypeSystemForManager(nsDef, nsc, revision): the outcomes of
\* a build, a type system of the definition or an error.
BuildNamespaceTypeSystemForManager(nsDef) ==
    {[ts |-> [name |-> nsDef.name, relations |-> nsDef.relation], err |-> NoErr],
     [ts |-> NilTs, err |-> ErrBuild]}

\* A return that drops the definition when the build failed.
TypesResultDropsDef(out, built) ==
    IF out.err # NoErr
    THEN [def |-> out.val, ts |-> NilTs, err |-> out.err, builds |-> 0]
    ELSE IF built.err # NoErr
    THEN [def |-> NilDef, ts |-> NilTs, err |-> built.err, builds |-> 1]
    ELSE [def |-> out.val, ts |-> built.ts, err |-> built.err, builds |-> 1]

\* Lines 54-61: what ReadNamespaceAndTypes returns for the outcome of its
\* ReadNamespace call and, when that succeeded, of the build it then makes.
TypesResult(out, built) ==
    IF out.err # NoErr
    THEN [def |-> out.val, ts |-> NilTs, err |-> out.err, builds |-> 0]
    ELSE [def |-> out.val, ts |-> built.ts, err |-> built.err, builds |-> 1]

\* Lines 53-54, entry of ReadNamespaceAndTypes
ReadNamespaceAndTypes(c, n, r) ==
    WrapBegin(c, "ReadNamespaceAndTypes", n, r, "", FALSE)

\* Lines 55-61 with a build that looks no namespace up (or no build at all,
\* ReadNamespace having failed).
TypesReturn(c) ==
    /\ WrapReturning(c)
    /\ wrap.method = "ReadNamespaceAndTypes"
    /\ wrap.lookup = 0
    /\ \E built \in (IF ret[c].err = NoErr
                     THEN BuildNamespaceTypeSystemForManager(ret[c].val)
                     ELSE {[ts |-> NilTs, err |-> NoErr]}) :
          LET res == TypesResult(ret[c], built)
          IN  wrap' = [wrap EXCEPT !.done = TRUE, !.def = res.def, !.ts = res.ts,
                                   !.err = res.err, !.builds = res.builds]
    /\ UNCHANGED <<pc, nsName, revision, ctxDone, cacheVars, m, sfcall, flight,
                   ret, role, history>>

\* Line 60: the build, under way, is to look a referenced namespace up
\* through the manager; the lookup is ReadNamespace call d, the next to begin.
BuilderLookup(c, d, ref) ==
    /\ WrapReturning(c)
    /\ wrap.method = "ReadNamespaceAndTypes"
    /\ ret[c].err = NoErr
    /\ wrap.lookup = 0
    /\ pc[d] = "idle"
    /\ \A e \in Calls : e < d => pc[e] # "idle"
    /\ wrap' = [wrap EXCEPT !.lookup = d, !.ref = ref, !.builds = 1]
    /\ UNCHANGED <<pc, nsName, revision, ctxDone, cacheVars, m, sfcall, flight,
                   ret, role, history>>

\* The build's nsc.ReadNamespace(ctx, ref, revision)
BuilderReadNamespace(d) ==
    /\ wrap.lookup = d
    /\ ~wrap.done
    /\ ReadNamespaceBegin(d, wrap.ref, wrap.revision)

\* Lines 60-61: the lookup has returned and the build ends.
BuilderReturn(c) ==
    /\ WrapReturning(c)
    /\ wrap.lookup # 0
    /\ pc[wrap.lookup] = "done"
    /\ \E built \in BuildNamespaceTypeSystemForManager(ret[c].val) :
          LET res == TypesResult(ret[c], built)
          IN  wrap' = [wrap EXCEPT !.done = TRUE, !.def = res.def, !.ts = res.ts,
                                   !.err = res.err, !.builds = res.builds]
    /\ UNCHANGED <<pc, nsName, revision, ctxDone, cacheVars, m, sfcall, flight,
                   ret, role, history>>

\* The steps of a ReadNamespaceAndTypes after its entry.
TypesStep(c) ==
    \/ WrapReadNamespace(c)
    \/ TypesReturn(c)
    \/ \E d \in Calls, ref \in Referenced : BuilderLookup(c, d, ref)
    \/ BuilderReadNamespace(c)
    \/ BuilderReturn(c)

\* ReadNamespaceAndTypes invoked time after time.
NextTypes ==
    \/ \E c \in Calls : \E q \in Requests : ReadNamespaceAndTypes(c, q[1], q[2])
    \/ \E c \in Calls : TypesStep(c)
    \/ \E c \in Calls : DoEnter(c)
    \/ \E c \in Calls : Closure(c)
    \/ \E c \in Calls : DoExit(c)
    \/ \E i \in setBuf : \E admit \in BOOLEAN, victims \in SUBSET (DOMAIN cache) :
          CacheProcess(i, admit, victims)

SpecTypes == Init /\ [][NextTypes]_vars

\* A call that no invocation of ReadNamespaceAndTypes in progress is to make.
Unreserved(c) == wrap.done \/ (wrap.call # c /\ wrap.lookup # c)

\* Concurrent ReadNamespace calls for any pairs, and with them invocations of
\* ReadNamespaceAndTypes, one after the other, whose builds may look
\* namespaces up.
NextLive ==
    \/ \E c \in Calls : \E q \in Requests :
          Unreserved(c) /\ ReadNamespaceBegin(c, q[1], q[2])
    \/ \E c \in Calls : \E q \in Requests : ReadNamespaceAndTypes(c, q[1], q[2])
    \/ \E c \in Calls : TypesStep(c)
    \/ \E c \in Calls : CallStep(c)
    \/ \E i \in setBuf : \E admit \in BOOLEAN, victims \in SUBSET (DOMAIN cache) :
          CacheProcess(i, admit, victims)

\* Every call that can take a step eventually takes one: the callers keep
\* running, and every datastore read a leader has issued returns.
Fairness ==
    \A c \in Calls : WF_vars(CallStep(c)) /\ WF_vars(TypesStep(c))

SpecLive == Init /\ [][NextLive]_vars /\ Fairness

----------------------------------------------------------------------------
\* Vocabulary of the properties

Begun(c) == pc[c] # "idle"
Returned(c) == pc[c] = "done"
ReturnedOk(c) == pc[c] = "done" /\ ret[c].err = NoErr
SamePair(c, d) == nsName[c] = nsName[d] /\ revision[c] = revision[d]

\* The calls that have begun for a pair.
CallsFor(n, r) == {c \in Calls : Begun(c) /\ nsName[c] = n /\ revision[c] = r}

\* The datastore's fetch counter for a pair.
RECURSIVE ReadsUpTo(_, _, _)
ReadsUpTo(n, r, c) ==
    IF c = 0 THEN 0
    ELSE ReadsUpTo(n, r, c - 1)
         + (IF nsName[c] = n /\ revision[c] = r THEN dsReads[c] ELSE 0)

FetchCount(n, r) == ReadsUpTo(n, r, NumCalls)

\* The definition of a pair as a caller is to see it.
Expected(n, r) == FilterUserDefinedMetadata(DsContent(n, r))

IsSanitized(def) == def.metadata = {}

\* A leader whose closure is running or has run but whose call is still
\* registered.
InFlightLeader(c) == role[c] = "leader" /\ pc[c] \in {"fetch", "exit"}

----------------------------------------------------------------------------
\* C1 as stated, under SpecConcurrent: K concurrent calls for one pair whose
\* key is not yet in the cache make the datastore read exactly once under
\* every interleaving, and all of them return the same result.
C1_OneFetchUnderEveryInterleaving ==
    \A q \in Requests :
        /\ FetchCount(q[1], q[2]) <= 1
        /\ \A c, d \in CallsFor(q[1], q[2]) :
              Returned(c) /\ Returned(d) => ret[c] = ret[d]

\* C1 amended, under SpecConcurrent: the calls that enter Do while a call for
\* their key is registered share that call's single datastore read and return
\* its result; a key never has two leaders in flight at once, a follower never
\* reads the datastore and a leader reads it at most once, so K concurrent
\* calls make between 1 and K reads, and the definitions they return are equal.
C1_Coalescing ==
    /\ \A c, d \in Calls :
          Returned(c) /\ Returned(d) /\ flight[c] # 0 /\ flight[c] = flight[d]
          => ret[c] = ret[d]
    /\ \A c, d \in Calls :
          c # d /\ InFlightLeader(c) /\ InFlightLeader(d) => ~SamePair(c, d)
    /\ \A c, d \in Calls : ReturnedOk(c) /\ ReturnedOk(d) => ret[c] = ret[d]
    /\ \A c \in Calls :
          /\ role[c] \in {"follower", "hit", "none"} => dsReads[c] = 0
          /\ role[c] = "leader" => dsReads[c] = (IF pc[c] = "fetch" THEN 0 ELSE 1)
          /\ role[c] = "follower" => SamePair(c, flight[c]) /\ role[flight[c]] = "leader"
    /\ \A q \in Requests :
          /\ FetchCount(q[1], q[2]) <= Cardinality(CallsFor(q[1], q[2]))
          /\ (\E c \in CallsFor(q[1], q[2]) : Returned(c)) => FetchCount(q[1], q[2]) >= 1

\* Three concurrent calls for one pair have returned the same definition out
\* of one datastore read: a leader and two followers.
C1_Witness ==
    \E l \in Calls :
        /\ role[l] = "leader" /\ ReturnedOk(l)
        /\ \A c \in Calls : Returned(c) /\ ret[c] = ret[l]
        /\ Cardinality({c \in Calls : role[c] = "follower" /\ flight[c] = l}) = 2
        /\ FetchCount(nsName[l], revision[l]) = 1

----------------------------------------------------------------------------
\* C2 as stated, under SpecSequential: once a call has returned the
\* definition of a pair, the calls that follow for the pair never make the
\* datastore read, so the fetch count of a pair whose reads all succeed is 1.
C2_SubsequentCallsNeverFetch ==
    \A q \in Requests :
        /\ \E c \in CallsFor(q[1], q[2]) : ReturnedOk(c)
        /\ \A c \in CallsFor(q[1], q[2]) : dsErr[c] = NoErr
        => FetchCount(q[1], q[2]) = 1

\* C2 amended, under SpecSequential: the calls that follow a call that
\* returned the definition return the same content; a call whose probe finds
\* the entry returns it without a datastore read, and a call whose probe
\* misses (the insert still queued, rejected, or the entry evicted) fetches
\* again, so after N sequential calls the fetch count is between 1 and N.
C2_CacheCorrectness ==
    /\ \A c \in Calls :
          /\ role[c] = "hit"
             => /\ ReturnedOk(c) /\ dsReads[c] = 0
                /\ FetchCount(nsName[c], revision[c]) >= 1
          /\ role[c] = "leader" => dsReads[c] <= 1
          /\ \A d \in Calls :
                ReturnedOk(c) /\ ReturnedOk(d) /\ SamePair(c, d)
                => ret[c].val = ret[d].val
    /\ \A q \in Requests :
          (\E c \in CallsFor(q[1], q[2]) : ReturnedOk(c))
          => /\ FetchCount(q[1], q[2]) >= 1
             /\ FetchCount(q[1], q[2]) <= Cardinality(CallsFor(q[1], q[2]))

\* Three calls in sequence for one pair: the first fetched, the two that
\* followed were served from the cache, one datastore read in all.
C2_Witness ==
    \E l \in Calls :
        /\ role[l] = "leader" /\ ReturnedOk(l)
        /\ \A c \in Calls \ {l} :
              /\ ReturnedOk(c) /\ SamePair(c, l)
              /\ role[c] = "hit" /\ ret[c] = ret[l]
        /\ FetchCount(nsName[l], revision[l]) = 1

----------------------------------------------------------------------------
\* C3: every value the cache holds or has queued is stripped of user-defined
\* metadata, and every definition ReadNamespace returns, to a leader, a
\* follower or on a cache hit, is the stripped one, never the one as read.
C3_Sanitization ==
    /\ \A k \in DOMAIN cache : IsSanitized(cache[k])
    /\ \A i \in setBuf : IsSanitized(i.value)
    /\ \A c \in Calls :
          ReturnedOk(c)
          => /\ IsSanitized(ret[c].val)
             /\ ret[c].val # DsContent(nsName[c], revision[c])

\* A definition that carries user-defined metadata in the datastore has been
\* returned to a leader, to a follower and on a cache hit.
C3_Witness ==
    /\ \A c \in Calls : ReturnedOk(c) /\ nsName[c] = "document" /\ revision[c] = 1
    /\ {role[c] : c \in Calls} = {"leader", "follower", "hit"}
    /\ \E k \in DOMAIN cache : cache[k].name = "document"

----------------------------------------------------------------------------
\* C4: whatever the cache rejects or evicts, a call whose datastore read
\* succeeded returns without error, every definition returned is the stripped
\* datastore content of the pair asked for, and an error returned is one the
\* datastore gave; a missing entry only makes a later call fetch again.
C4_EvictionIsAdvisory ==
    \A c \in Calls :
        Returned(c)
        => /\ ret[c].err = NoErr
              => ret[c].val = Expected(nsName[c], revision[c])
                 /\ DsExists(nsName[c], revision[c])
           /\ role[c] = "leader" /\ dsErr[c] = NoErr => ret[c].err = NoErr
           /\ ret[c].err # NoErr
              => \/ ret[c].err = NamespaceCacheKey(nsName[c], revision[c]).err
                 \/ flight[c] # 0 /\ dsErr[flight[c]] # NoErr

\* Two calls for one pair have each fetched and returned the same definition,
\* and the entry neither insert left is in the cache (rejected or evicted) with
\* nothing queued.
C4_Witness ==
    \E c, d \in Calls :
        /\ c # d /\ SamePair(c, d)
        /\ role[c] = "leader" /\ ReturnedOk(c)
        /\ role[d] = "leader" /\ ReturnedOk(d)
        /\ ret[d].val = Expected(nsName[c], revision[c])
        /\ NamespaceCacheKey(nsName[c], revision[c]).key \notin DOMAIN cache
        /\ setBuf = {}

----------------------------------------------------------------------------
\* C5: the entry under the key of (name, R), in the cache or queued for it,
\* holds the content as of R, two revisions of a name have entries of their
\* own, and a call served from the cache at revision R returns the content as
\* of R.
C5_RevisionIsolation ==
    /\ \A k \in DOMAIN cache : cache[k] = Expected(k[1], k[2])
    /\ \A i \in setBuf : i.value = Expected(i.key[1], i.key[2])
    /\ \A c \in Calls :
          role[c] = "hit" => ret[c].val = Expected(nsName[c], revision[c])

\* Revisions 1 and 2 of "document" are both cached, with differing content,
\* and with both read a call for revision 1 was served revision 1's content
\* from the cache.
C5_Witness ==
    /\ <<"document", 1>> \in DOMAIN cache
    /\ <<"document", 2>> \in DOMAIN cache
    /\ cache[<<"document", 1>>] # cache[<<"document", 2>>]
    /\ \E c \in Calls :
          /\ nsName[c] = "document" /\ revision[c] = 1
          /\ role[c] = "hit"
          /\ ret[c].val = Expected("document", 1)
          /\ \E d \in Calls : revision[d] = 2 /\ ReturnedOk(d)

----------------------------------------------------------------------------
\* C6: when the datastore read of a singleflight call reported NotFound,
\* every caller of that call, its leader and each follower, returns
\* NamespaceNotFound naming the namespace it asked for and no definition,
\* never the datastore's own error.
C6_NotFoundMapping ==
    \A c \in Calls :
        Returned(c) /\ flight[c] # 0
        /\ dsErr[flight[c]] = DsErrNamespaceNotFound(nsName[flight[c]])
        => ret[c] = [val |-> NilDef, err |-> NewNamespaceNotFoundErr(nsName[c])]

\* A leader whose read reported NotFound and a follower of it have both
\* returned NamespaceNotFound("user").
C6_Witness ==
    \E l, f \in Calls :
        /\ role[l] = "leader" /\ role[f] = "follower" /\ flight[f] = l
        /\ dsErr[l].kind = "datastore.ErrNamespaceNotFound"
        /\ Returned(l) /\ Returned(f)
        /\ ret[l].err = NewNamespaceNotFoundErr("user")
        /\ ret[f].err = NewNamespaceNotFoundErr("user")

----------------------------------------------------------------------------
\* C7: a singleflight call whose datastore read failed made that one read and
\* no other, its followers made none, and its leader and every follower return
\* the same error and no definition; an error other than NotFound is the
\* datastore's error unchanged.
C7_NoRetrySameFailure ==
    \A l \in Calls :
        role[l] = "leader" /\ dsErr[l] # NoErr
        => /\ dsReads[l] = 1
           /\ \A c \in Calls :
                 flight[c] = l
                 => /\ c # l => dsReads[c] = 0
                    /\ Returned(c) => ret[c].val = NilDef /\ ret[c].err # NoErr
                    /\ Returned(c) /\ Returned(l) => ret[c] = ret[l]
                    /\ Returned(c) /\ dsErr[l].kind # "datastore.ErrNamespaceNotFound"
                       => ret[c].err = dsErr[l]

\* A leader whose read failed with a datastore error and two followers of it
\* have all returned that error, after one datastore read.
C7_Witness ==
    \E l \in Calls :
        /\ role[l] = "leader" /\ dsErr[l] = ErrDatastore /\ dsReads[l] = 1
        /\ \A c \in Calls : Returned(c) /\ flight[c] = l /\ ret[c].err = ErrDatastore
        /\ FetchCount(nsName[l], revision[l]) = 1

----------------------------------------------------------------------------
\* C8: a call whose key derivation fails returns that error and no definition
\* at once: it has not probed the cache, not entered Do, not read the
\* datastore, and the cache, its queue and the group hold nothing for it.
NilKey == NamespaceCacheKey("user", -1).key

C8_KeyDerivationFailure ==
    /\ \A c \in Calls :
          Begun(c) /\ NamespaceCacheKey(nsName[c], revision[c]).err # NoErr
          => /\ Returned(c)
             /\ ret[c] = [val |-> NilDef,
                          err |-> NamespaceCacheKey(nsName[c], revision[c]).err]
             /\ role[c] = "none" /\ flight[c] = 0 /\ dsReads[c] = 0
    /\ NilKey \notin DOMAIN cache
    /\ NilKey \notin DOMAIN m
    /\ \A i \in setBuf : i.key # NilKey

\* A call with a revision that has no key has returned the derivation error
\* while another call's fetch is in flight and the cache holds an entry.
C8_Witness ==
    \E c \in Calls :
        /\ Returned(c) /\ revision[c] < 0
        /\ ret[c].err = ErrInvalidRevision
        /\ DOMAIN m # {}
        /\ DOMAIN cache # {}

----------------------------------------------------------------------------
\* C9 as stated, under SpecConcurrent: a follower whose context is canceled while it waits stops
\* waiting and returns, without the leader's fetch having completed.
C9_CanceledFollowerReturns ==
    \A c \in Calls :
        pc[c] = "wait" /\ ctxDone[c] => ENABLED DoWake(c)

\* C9 amended, under SpecConcurrent: canceling the context of a waiting follower does not release
\* it: it keeps waiting until the leader's call completes and then returns the
\* leader's outcome like every other follower; the leader's fetch is not
\* affected and never blocked.
C9_FollowerCancellation ==
    \A c \in Calls :
        /\ pc[c] = "wait"
           => /\ (ENABLED DoWake(c)) <=> sfcall[flight[c]].done
              /\ ~sfcall[flight[c]].done => ENABLED CallStep(flight[c])
        /\ role[c] = "follower" /\ Returned(c)
           => /\ sfcall[flight[c]].done
              /\ ret[c] = ret[flight[c]]
              /\ ret[c].err = NoErr => ret[c].val = Expected(nsName[c], revision[c])

\* Of two followers of one leader the context of one was canceled while it
\* waited: both have returned the definition the leader returned.
C9_Witness ==
    \E l, f, g \in Calls :
        /\ role[l] = "leader" /\ ReturnedOk(l)
        /\ role[f] = "follower" /\ flight[f] = l /\ ctxDone[f]
        /\ role[g] = "follower" /\ flight[g] = l /\ ~ctxDone[g]
        /\ ReturnedOk(f) /\ ReturnedOk(g)
        /\ ret[f] = ret[l] /\ ret[g] = ret[l]

----------------------------------------------------------------------------
\* C10: a call blocks only as a follower, only on the singleflight call of its
\* own key and only until that call is done; whatever fetches are outstanding
\* for other keys, a call that is to enter Do, to fetch or to leave Do can take
\* its step, and the next call can begin with any pair.
C10_PerKeyBlocking ==
    /\ \A c \in Calls :
          /\ pc[c] \in {"do", "fetch", "exit"} => ENABLED CallStep(c)
          /\ pc[c] = "wait"
             => /\ nsRevisionKey(c).key = nsRevisionKey(flight[c]).key
                /\ (ENABLED CallStep(c)) <=> sfcall[flight[c]].done
          /\ pc[c] = "idle" /\ (\A d \in Calls : d < c => Begun(d))
             => \A q \in Requests : ENABLED ReadNamespaceBegin(c, q[1], q[2])
    /\ \A k \in DOMAIN m : InFlightLeader(m[k]) /\ nsRevisionKey(m[k]).key = k

\* The fetches of two different keys are outstanding at once, the call that
\* began later has already made its read and can return, and a third call
\* waits on the outstanding fetch of its own key.
C10_Witness ==
    \E a, b, w \in Calls :
        /\ pc[a] = "fetch" /\ a < b
        /\ pc[b] = "exit" /\ dsReads[b] = 1 /\ ~SamePair(a, b)
        /\ ENABLED DoExit(b)
        /\ pc[w] = "wait" /\ flight[w] = a

----------------------------------------------------------------------------
\* C11, under SpecCheck: a CheckNamespaceAndRelation whose ReadNamespace call
\* failed returns that call's error, the wildcard with allowEllipsis included;
\* otherwise it returns no error exactly when allowEllipsis holds and the
\* relation is the wildcard or the relation is one the definition declares,
\* and in every other case RelationNotFound with the namespace and the relation.
C11_CheckNamespaceAndRelation ==
    wrap.method = "CheckNamespaceAndRelation" /\ wrap.done
    => LET c == wrap.call
           declared == IF DsExists(wrap.namespace, wrap.revision)
                       THEN DsContent(wrap.namespace, wrap.revision).relation
                       ELSE {}
           accepted == \/ wrap.allowEllipsis /\ wrap.relation = Ellipsis
                       \/ wrap.relation \in declared
       IN  /\ Returned(c) /\ nsName[c] = wrap.namespace /\ revision[c] = wrap.revision
           /\ ret[c].err # NoErr => wrap.err = ret[c].err
           /\ ret[c].err = NoErr
              => /\ wrap.err = NoErr <=> accepted
                 /\ ~accepted
                    => wrap.err = [kind |-> "RelationNotFound",
                                   name |-> wrap.namespace,
                                   relation |-> wrap.relation]

\* With revision 2 of "document" (relations viewer and editor) served from the
\* cache, the check of the undeclared "owner" has returned RelationNotFound.
C11_Witness ==
    /\ wrap.method = "CheckNamespaceAndRelation" /\ wrap.done
    /\ wrap.namespace = "document" /\ wrap.revision = 2
    /\ wrap.relation = "owner"
    /\ role[wrap.call] = "hit"
    /\ wrap.err.kind = "RelationNotFound"

----------------------------------------------------------------------------
\* C12, under SpecTypes: a ReadNamespaceAndTypes whose ReadNamespace call
\* failed returns that error with no type system and has made no build; one
\* whose ReadNamespace call succeeded has made a build of its own, a cache hit
\* included, and returns the definition with the build's type system or,
\* the build having failed, with the build's error; nothing but definitions
\* is kept in the cache.
C12_ReadNamespaceAndTypes ==
    /\ wrap.method = "ReadNamespaceAndTypes" /\ wrap.done
       => LET c == wrap.call
          IN  /\ Returned(c) /\ nsName[c] = wrap.namespace
              /\ revision[c] = wrap.revision
              /\ ret[c].err # NoErr
                 => /\ wrap.err = ret[c].err /\ wrap.ts = NilTs
                    /\ wrap.def = NilDef /\ wrap.builds = 0 /\ wrap.lookup = 0
              /\ ret[c].err = NoErr
                 => /\ wrap.builds = 1
                    /\ wrap.def = ret[c].val
                    /\ wrap.def = Expected(wrap.namespace, wrap.revision)
                    /\ wrap.err = NoErr
                       => wrap.ts = [name |-> wrap.def.name,
                                     relations |-> wrap.def.relation]
                    /\ wrap.err # NoErr => wrap.err = ErrBuild /\ wrap.ts = NilTs
    /\ wrap.method = "ReadNamespaceAndTypes" /\ ~wrap.done
       => wrap.def = NilDef /\ wrap.ts = NilTs /\ wrap.builds <= 1
    /\ \A k \in DOMAIN cache : cache[k] = Expected(k[1], k[2])

\* A ReadNamespaceAndTypes served from the cache has made its build, which
\* failed, and has returned the definition together with the build's error.
C12_Witness ==
    /\ wrap.method = "ReadNamespaceAndTypes" /\ wrap.done
    /\ role[wrap.call] = "hit"
    /\ wrap.builds = 1
    /\ wrap.err = ErrBuild
    /\ wrap.def = Expected("document", 2)

----------------------------------------------------------------------------
\* C13: the step in which a call begins with the entry of its key in the
\* cache ends the call: it returns that entry and no error, has read the
\* datastore not once and joined no singleflight call, and leaves the cache,
\* its queue, the group and every singleflight call as they were; a call
\* served from the cache never takes another step.
BeginsWithEntry(c) ==
    /\ pc[c] = "idle"
    /\ pc'[c] # "idle"
    /\ NamespaceCacheKey(nsName'[c], revision'[c]).err = NoErr
    /\ NamespaceCacheKey(nsName'[c], revision'[c]).key \in DOMAIN cache

C13_CacheHitFastPath ==
    [][\A c \in Calls :
          /\ BeginsWithEntry(c)
             => /\ pc'[c] = "done"
                /\ ret'[c] = [val |-> cache[NamespaceCacheKey(nsName'[c],
                                                             revision'[c]).key],
                              err |-> NoErr]
                /\ dsReads'[c] = 0 /\ flight'[c] = 0
                /\ UNCHANGED <<cache, setBuf, m, sfcall, dsReads, flight>>
          /\ role[c] = "hit"
             => /\ pc[c] = "done" /\ dsReads[c] = 0 /\ flight[c] = 0
                /\ UNCHANGED <<pc[c], ret[c], role[c], dsReads[c], flight[c]>>]_vars

\* A call has been served from the cache while the singleflight call that
\* inserted the entry is still registered under its key and a fetch for
\* another key is outstanding.
C13_Witness ==
    \E a, b, c \in Calls :
        /\ role[c] = "hit" /\ ReturnedOk(c) /\ dsReads[c] = 0 /\ flight[c] = 0
        /\ a < c /\ pc[a] = "exit" /\ SamePair(a, c)
        /\ pc[b] = "fetch" /\ ~SamePair(b, c)
        /\ DOMAIN m = {nsRevisionKey(a).key, nsRevisionKey(b).key}

----------------------------------------------------------------------------
\* C14: no key has two fetches in flight: the calls in flight are the ones
\* registered in the group, one per key, and only they read the datastore; a
\* caller that entered Do while a call for its key was registered is a
\* follower of that call, reads nothing and returns what its leader returns,
\* and not before it.
C14_SingleInFlightFetch ==
    /\ \A c, d \in Calls :
          InFlightLeader(c) /\ InFlightLeader(d) /\ c # d
          => nsRevisionKey(c).key # nsRevisionKey(d).key
    /\ \A c \in Calls :
          /\ InFlightLeader(c)
             <=> nsRevisionKey(c).key \in DOMAIN m /\ m[nsRevisionKey(c).key] = c
          /\ dsReads[c] > 0 => role[c] = "leader" /\ dsReads[c] = 1
          /\ role[c] = "follower"
             => /\ flight[c] # c /\ role[flight[c]] = "leader"
                /\ nsRevisionKey(flight[c]).key = nsRevisionKey(c).key
                /\ dsReads[c] = 0
                /\ Returned(c) => Returned(flight[c]) /\ ret[c] = ret[flight[c]]

\* A follower has returned what its leader returned, and with that call
\* over, a later call for the key has a fetch of its own in flight.
C14_Witness ==
    \E a, f, b \in Calls :
        /\ role[a] = "leader" /\ Returned(a) /\ dsReads[a] = 1
        /\ role[f] = "follower" /\ flight[f] = a /\ Returned(f) /\ ret[f] = ret[a]
        /\ pc[b] = "fetch" /\ SamePair(a, b)

----------------------------------------------------------------------------
----------------------------------------------------------------------------
\* The step in which the closure of call c hands its definition to the cache.
IssuesInsert(c) == pc[c] = "fetch" /\ pc'[c] = "exit" /\ dsErr'[c] = NoErr

\* C16 as stated: no insert is issued for a key while the cache holds an
\* entry for it.
C16_NoInsertForPresentKey ==
    [][\A c \in Calls :
          IssuesInsert(c) => nsRevisionKey(c).key \notin DOMAIN cache]_vars

\* C16 amended: the content of an entry never changes while the entry is
\* present; an insert can be issued for a present key (by a call that probed
\* before the entry was visible and became a leader afterwards), and then it
\* stores a value equal to the entry's, so that a present key always yields
\* the content it was inserted with.
C16_EntriesKeepTheirContent ==
    [][/\ \A k \in DOMAIN cache : k \in DOMAIN cache' => cache'[k] = cache[k]
       /\ \A c \in Calls :
             IssuesInsert(c) /\ nsRevisionKey(c).key \in DOMAIN cache
             => /\ sfcall'[c].val = cache[nsRevisionKey(c).key]
                /\ cache' = cache
                /\ setBuf' = setBuf]_vars

\* With the entry of a key in the cache and the call that fetched it over, a
\* second call for the key, which had missed, is a leader about to read the
\* datastore and to insert again.
C16_Witness ==
    \E a, c \in Calls :
        /\ a # c /\ SamePair(a, c)
        /\ role[a] = "leader" /\ ReturnedOk(a)
        /\ pc[c] = "fetch"
        /\ nsRevisionKey(c).key \in DOMAIN cache
        /\ cache[nsRevisionKey(c).key] = ret[a].val
        /\ ENABLED Closure(c)

----------------------------------------------------------------------------
\* C17, under SpecLive: from some time on every ReadNamespace call that has
\* begun, leader or follower, has returned, the lookups of a type system
\* build and the ReadNamespaceAndTypes that makes the build included, and the
\* group holds no entry; while a key is registered its leader is running; a
\* call that waits, waits on a call whose leader is running, or has been
\* released.
C17_Termination ==
    /\ <>[](/\ \A c \in Calls : pc[c] \in {"idle", "done"}
            /\ wrap.done
            /\ DOMAIN m = {})
    /\ [](\A k \in DOMAIN m : InFlightLeader(m[k]))
    /\ [](\A c \in Calls :
             pc[c] = "wait" => InFlightLeader(flight[c]) \/ ENABLED DoWake(c))

\* A ReadNamespaceAndTypes has returned whose build looked a namespace up
\* and whose lookup waited as a follower of another call's fetch; every call
\* has returned and the group is empty.
C17_Witness ==
    /\ wrap.method = "ReadNamespaceAndTypes" /\ wrap.done
    /\ wrap.lookup # 0
    /\ role[wrap.lookup] = "follower"
    /\ \A c \in Calls : Returned(c)
    /\ DOMAIN m = {}

----------------------------------------------------------------------------
\* C18, under SpecConcurrent: when the datastore read of a leader failed with
\* the cancellation of the leader's context, the leader and every follower of
\* its call return that cancellation error and no definition, a follower
\* whose own context is live included, the call holds no definition, and a
\* key all of whose fetches failed has no entry in the cache and none queued.
C18_LeaderCancellationShared ==
    /\ \A l \in Calls :
          role[l] = "leader" /\ dsErr[l] = ErrCanceled
          => /\ sfcall[l].val = NilDef /\ sfcall[l].err = ErrCanceled
             /\ \A c \in Calls :
                   flight[c] = l /\ Returned(c)
                   => ret[c] = [val |-> NilDef, err |-> ErrCanceled]
    /\ \A q \in Requests :
          (\A c \in CallsFor(q[1], q[2]) : dsErr[c] # NoErr \/ dsReads[c] = 0)
          => /\ NamespaceCacheKey(q[1], q[2]).key \notin DOMAIN cache
             /\ \A i \in setBuf : i.key # NamespaceCacheKey(q[1], q[2]).key

\* The read of a leader was canceled; of its two followers the context of
\* one was canceled too and that of the other is live: all three have
\* returned the cancellation error, and the cache and its queue are empty.
C18_Witness ==
    \E l, f, g \in Calls :
        /\ role[l] = "leader" /\ dsErr[l] = ErrCanceled /\ Returned(l)
        /\ role[f] = "follower" /\ flight[f] = l /\ ~ctxDone[f] /\ Returned(f)
        /\ role[g] = "follower" /\ flight[g] = l /\ ctxDone[g] /\ Returned(g)
        /\ ret[f].err = ErrCanceled /\ ret[g].err = ErrCanceled
        /\ ret[l].err = ErrCanceled
        /\ DOMAIN cache = {} /\ setBuf = {}
====
